---- MODULE Spec2Model ----
(***************************************************************************)
(* Log analyzer: parse_log_data (features.py), process_logs_and_summarize  *)
(* (features.py) and generate_log_summary (ai_logic.py).                   *)
(*                                                                         *)
(* Text is modelled at character level: a string is a sequence of          *)
(* one-character strings, so that the regular expression, str.strip,       *)
(* str.splitlines, str.upper and the substring tests are computed the way  *)
(* the code computes them.                                                 *)
(***************************************************************************)
EXTENDS Integers, Sequences, FiniteSets, TLC

\* ------------------------------------------------------------------ bounds
\* pieces concatenated to build one fuzzed input text
MaxChunks == 3
\* sample lines joined to build one multi-line input text
MaxLines == 3
\* largest cap passed to a direct call of parse_log_data
MaxCap == 2
\* lines joined to build the text of one of two concurrent invocations
MaxPairLines == 2

\* ------------------------------------------------------- Python values
\* Python's None; no string equals it (strings hold one-character items)
None == << "<None>" >>
\* None where a record is expected (the uploaded file, the returned value)
NoneRecord == [ none |-> TRUE ]
\* None where a DataFrame is expected
NoneFrame == << NoneRecord >>
\* the value of an expression that raised AttributeError (method on None)
AttributeError == << "<AttributeError>" >>

\* ------------------------------------------------------- string literals
INFO == << "I", "N", "F", "O" >>
WARN == << "W", "A", "R", "N" >>
WARNING == << "W", "A", "R", "N", "I", "N", "G" >>
ERROR == << "E", "R", "R", "O", "R" >>
DEBUG == << "D", "E", "B", "U", "G" >>
CRITICAL == << "C", "R", "I", "T", "I", "C", "A", "L" >>
FATAL == << "F", "A", "T", "A", "L" >>

\* the alternation (INFO|WARN|WARNING|ERROR|DEBUG|CRITICAL|FATAL), in the
\* order the regular expression tries its branches
LevelAlternation == << INFO, WARN, WARNING, ERROR, DEBUG, CRITICAL, FATAL >>

\* a default level left unset
DefaultLevelNone == None
\* line 46: level given to a line before the pattern is consulted
DefaultLevel == INFO

\* levels whose raw line is collected for the summarizer
ElevatedLevels == { ERROR, WARN, WARNING, CRITICAL, FATAL }

\* cap process_logs_and_summarize passes to parse_log_data
ProcessCap == 200

\* ------------------------------------------------------ character classes
\* \d of the pattern
Digits == { "0", "1", "2", "3", "4", "5", "6", "7", "8", "9" }

\* characters str.splitlines breaks a line at
LineBreaks == { "\n", "\r", "\f" }

\* str.strip's and \s's whitespace
IsSpace(c) == c \in { " ", "\t" } \cup LineBreaks

\* str.upper on one character
UpperMap ==
  [ c \in { "a", "b", "c", "d", "e", "f", "g", "h", "i", "j", "k", "l", "m",
            "n", "o", "p", "q", "r", "s", "t", "u", "v", "w", "x", "y", "z" } |->
    CASE c = "a" -> "A" [] c = "b" -> "B" [] c = "c" -> "C" [] c = "d" -> "D"
      [] c = "e" -> "E" [] c = "f" -> "F" [] c = "g" -> "G" [] c = "h" -> "H"
      [] c = "i" -> "I" [] c = "j" -> "J" [] c = "k" -> "K" [] c = "l" -> "L"
      [] c = "m" -> "M" [] c = "n" -> "N" [] c = "o" -> "O" [] c = "p" -> "P"
      [] c = "q" -> "Q" [] c = "r" -> "R" [] c = "s" -> "S" [] c = "t" -> "T"
      [] c = "u" -> "U" [] c = "v" -> "V" [] c = "w" -> "W" [] c = "x" -> "X"
      [] c = "y" -> "Y" [] c = "z" -> "Z" ]

UpperChar(c) == IF c \in DOMAIN UpperMap THEN UpperMap[c] ELSE c

\* ------------------------------------------------------- string methods
\* str.upper
Upper(s) == [ i \in 1..Len(s) |-> UpperChar(s[i]) ]

\* x.upper() where x may be None
PyUpper(x) == IF x = None THEN AttributeError ELSE Upper(x)

\* a line taken as it stands, the call of str.strip left out
StripNot(s) == s

\* str.strip: from the first to the last character that is not whitespace
Strip(s) ==
  LET keep == { i \in 1..Len(s) : ~ IsSpace(s[i]) }
  IN  IF keep = {} THEN << >>
      ELSE SubSeq(s, CHOOSE i \in keep : \A j \in keep : i <= j,
                     CHOOSE i \in keep : \A j \in keep : j <= i)

\* x.strip() where x may be None
PyStrip(x) == IF x = None THEN AttributeError ELSE Strip(x)

\* sub in s
Contains(s, sub) ==
  \E i \in 1..(Len(s) - Len(sub) + 1) : SubSeq(s, i, i + Len(sub) - 1) = sub

\* s[from:] with Python's meaning of a negative index
SliceFrom(s, from) ==
  IF from < 0
    THEN SubSeq(s, (IF Len(s) + from < 0 THEN 0 ELSE Len(s) + from) + 1, Len(s))
    ELSE SubSeq(s, from + 1, Len(s))

\* the numbers of S between lo and hi in increasing order, by halves
RECURSIVE AscendingIn(_, _, _)
AscendingIn(S, lo, hi) ==
  IF lo > hi THEN << >>
  ELSE IF lo = hi THEN (IF lo \in S THEN << lo >> ELSE << >>)
  ELSE AscendingIn(S, lo, (lo + hi) \div 2) \o AscendingIn(S, (lo + hi) \div 2 + 1, hi)

\* where the line breaks of s stand, "\r\n" counting as the one break at "\r"
LineBreaksOf(s) ==
  AscendingIn({ b \in 1..Len(s) :
                  /\ s[b] \in LineBreaks
                  /\ ~ (s[b] = "\n" /\ b > 1 /\ s[b - 1] = "\r") },
              1, Len(s))

\* offset of the first character after the break at b
AfterBreak(s, b) ==
  IF s[b] = "\r" /\ b < Len(s) /\ s[b + 1] = "\n" THEN b + 2 ELSE b + 1

\* str.splitlines: a break ends the current line ("\r\n" is one break) and
\* no empty line follows the last break
SplitLines(s) ==
  LET breaks == LineBreaksOf(s)
      n      == Len(breaks)
      last   == IF n = 0 THEN 1 ELSE AfterBreak(s, breaks[n])
  IN  [ k \in 1..(IF last <= Len(s) THEN n + 1 ELSE n) |->
          SubSeq(s,
                 IF k = 1 THEN 1 ELSE AfterBreak(s, breaks[k - 1]),
                 IF k <= n THEN breaks[k] - 1 ELSE Len(s)) ]

\* "\n".join(lines), by halves
RECURSIVE JoinLines(_)
JoinLines(lines) ==
  IF lines = << >> THEN << >>
  ELSE IF Len(lines) = 1 THEN lines[1]
  ELSE JoinLines(SubSeq(lines, 1, Len(lines) \div 2))
         \o << "\n" >> \o JoinLines(SubSeq(lines, Len(lines) \div 2 + 1, Len(lines)))

\* ------------------------------------------------------------ log_pattern
\* \d{4}-\d{2}-\d{2} \d{2}:\d{2}:\d{2} , "d" standing for \d
TimestampPattern ==
  << "d", "d", "d", "d", "-", "d", "d", "-", "d", "d", " ",
     "d", "d", ":", "d", "d", ":", "d", "d" >>

\* (?:,\d{3})
MillisPattern == << ",", "d", "d", "d" >>

\* pat matches line at offset pos (pos characters already consumed)
MatchesAt(pat, line, pos) ==
  /\ pos + Len(pat) <= Len(line)
  /\ \A i \in 1..Len(pat) :
       IF pat[i] = "d" THEN line[pos + i] \in Digits ELSE line[pos + i] = pat[i]

\* the timestamp group without its optional (?:,\d{3})? suffix
TimestampEndNoMillis(line) ==
  IF ~ MatchesAt(TimestampPattern, line, 0) THEN 0 ELSE Len(TimestampPattern)

\* end offset of group timestamp_str, 0 when the group does not take part
TimestampEnd(line) ==
  IF ~ MatchesAt(TimestampPattern, line, 0) THEN 0
  ELSE IF MatchesAt(MillisPattern, line, Len(TimestampPattern))
    THEN Len(TimestampPattern) + Len(MillisPattern)
    ELSE Len(TimestampPattern)

\* \s* : offset after the whitespace that starts at offset pos
SkipSpace(line, pos) ==
  CHOOSE p \in pos..Len(line) :
    /\ \A i \in (pos + 1)..p : IsSpace(line[i])
    /\ p = Len(line) \/ ~ IsSpace(line[p + 1])

\* the literal lit stands at offset pos of line
LiteralAt(lit, line, pos) ==
  /\ pos + Len(lit) <= Len(line)
  /\ SubSeq(line, pos + 1, pos + Len(lit)) = lit

MinOf(S) == CHOOSE x \in S : \A y \in S : x <= y

\* index of the branch of the alternation a backtracking matcher takes at
\* offset pos: the first one, in the order written, that fits (0: none)
FirstAlternativeAt(line, pos) ==
  LET fits == { k \in 1..Len(LevelAlternation) : LiteralAt(LevelAlternation[k], line, pos) }
  IN  IF fits = {} THEN 0 ELSE MinOf(fits)

\* \[?(?:(?P<level>...)\]?)? at offset pos: the opening bracket taken on its
\* own, outside the optional group
LevelTokenAtEatsBracket(line, pos) ==
  LET open == IF LiteralAt(<< "[" >>, line, pos) THEN pos + 1 ELSE pos
      k    == FirstAlternativeAt(line, open)
      lend == open + Len(LevelAlternation[k])
  IN  IF k = 0
        THEN [ group |-> None, end_level |-> -1, end |-> open ]
        ELSE [ group |-> LevelAlternation[k],
               end_level |-> lend,
               end |-> IF LiteralAt(<< "]" >>, line, lend) THEN lend + 1 ELSE lend ]

\* (?:\[?(?P<level>...)\]?)? at offset pos: the level group, the offset where
\* the group ends (-1 when it does not take part) and the offset where the
\* whole optional token ends
LevelTokenAt(line, pos) ==
  LET open == IF LiteralAt(<< "[" >>, line, pos) THEN pos + 1 ELSE pos
      k    == FirstAlternativeAt(line, open)
      lend == open + Len(LevelAlternation[k])
  IN  IF k = 0
        THEN [ group |-> None, end_level |-> -1, end |-> pos ]
        ELSE [ group |-> LevelAlternation[k],
               end_level |-> lend,
               end |-> IF LiteralAt(<< "]" >>, line, lend) THEN lend + 1 ELSE lend ]

\* log_pattern.match(line): every part of the pattern is optional and the
\* message group takes the rest, so the first choice of each part stands
LogPatternMatch(line) ==
  LET tsEnd == TimestampEnd(line)
      lv    == LevelTokenAt(line, SkipSpace(line, tsEnd))
      mfrom == SkipSpace(line, lv.end)
  IN  [ timestamp_str     |-> IF tsEnd = 0 THEN None ELSE SubSeq(line, 1, tsEnd),
        level             |-> lv.group,
        message           |-> SubSeq(line, mfrom + 1, Len(line)),
        end_timestamp_str |-> IF tsEnd = 0 THEN -1 ELSE tsEnd,
        end_level         |-> lv.end_level ]

\* ------------------------------------------------------ Line classifier
\* the test of the level group left out
LevelGroupTruthyAlways(level_group) == TRUE
\* "if level_group:"
LevelGroupTruthy(level_group) == level_group # None /\ level_group # << >>

\* lines 43-62: timestamp_str, level and message from the structured match
ClassifyStructured(line) ==
  LET match == LogPatternMatch(line)
      level_group == match.level
      message == PyStrip(match.message)
      level == IF LevelGroupTruthy(level_group) THEN PyUpper(level_group) ELSE DefaultLevel
  IN  [ timestamp_str |-> match.timestamp_str,
        level         |-> level,
        message       |-> IF message = << >> /\ match.timestamp_str # None
                             /\ LevelGroupTruthy(level_group)
                            THEN Strip(SliceFrom(line, match.end_level))
                            ELSE message ]

\* lines 67-70 with the warning rule tested before the error rule
KeywordOverrideWarnFirst(line, level) ==
  IF (Contains(Upper(line), WARN) \/ Contains(Upper(line), WARNING))
     /\ level # WARN /\ level # WARNING
    THEN WARN
  ELSE IF Contains(Upper(line), ERROR) /\ level # ERROR /\ level # CRITICAL /\ level # FATAL
    THEN ERROR
  ELSE level

\* lines 67-68 alone, the elif of the warning rule left out
KeywordOverrideErrorOnly(line, level) ==
  IF Contains(Upper(line), ERROR) /\ level # ERROR /\ level # CRITICAL /\ level # FATAL
    THEN ERROR
  ELSE level

\* lines 67-70: the keyword override
KeywordOverride(line, level) ==
  IF Contains(Upper(line), ERROR) /\ level # ERROR /\ level # CRITICAL /\ level # FATAL
    THEN ERROR
  ELSE IF (Contains(Upper(line), WARN) \/ Contains(Upper(line), WARNING))
          /\ level # WARN /\ level # WARNING
    THEN WARN
  ELSE level

\* lines 43-78: the entry of one stripped, non-empty line; an exception
\* raised on the way shows as AttributeError in a field
ParseEntry(line) ==
  LET c == ClassifyStructured(line)
  IN  [ timestamp_str |-> c.timestamp_str,
        level         |-> IF c.level = AttributeError THEN AttributeError
                          ELSE KeywordOverride(line, c.level),
        message       |-> c.message,
        raw_line      |-> line ]

EntryRaised(e) == e.level = AttributeError \/ e.message = AttributeError

\* --------------------------------------------------- timestamp coercion
\* pandas' missing timestamp
NaT == [ nat |-> TRUE ]

DigitValue(c) ==
  CASE c = "0" -> 0 [] c = "1" -> 1 [] c = "2" -> 2 [] c = "3" -> 3 [] c = "4" -> 4
    [] c = "5" -> 5 [] c = "6" -> 6 [] c = "7" -> 7 [] c = "8" -> 8 [] c = "9" -> 9

\* value of the digits s[from..to]
RECURSIVE Number(_, _, _)
Number(s, from, to) ==
  IF to < from THEN 0 ELSE 10 * Number(s, from, to - 1) + DigitValue(s[to])

DaysInMonth(y, m) ==
  IF m \in { 4, 6, 9, 11 } THEN 30
  ELSE IF m = 2
    THEN IF (y % 4 = 0 /\ y % 100 # 0) \/ y % 400 = 0 THEN 29 ELSE 28
  ELSE 31

\* the calendar fields of a string shaped as TimestampPattern, NaT when they
\* name no instant
FieldsToTimestamp(s, micro) ==
  LET y  == Number(s, 1, 4)
      mo == Number(s, 6, 7)
      d  == Number(s, 9, 10)
      h  == Number(s, 12, 13)
      mi == Number(s, 15, 16)
      se == Number(s, 18, 19)
  IN  IF /\ y >= 1 /\ mo \in 1..12 /\ d >= 1 /\ d <= DaysInMonth(y, mo)
         /\ h <= 23 /\ mi <= 59 /\ se <= 59
        THEN [ year |-> y, month |-> mo, day |-> d, hour |-> h, minute |-> mi,
               second |-> se, microsecond |-> micro ]
        ELSE NaT

\* to_datetime(s, errors='coerce', format='%Y-%m-%d %H:%M:%S,%f')
ParseMillisFormat(s) ==
  IF /\ s # None
     /\ Len(s) = Len(TimestampPattern) + Len(MillisPattern)
     /\ MatchesAt(TimestampPattern, s, 0)
     /\ MatchesAt(MillisPattern, s, Len(TimestampPattern))
    THEN FieldsToTimestamp(s, 1000 * Number(s, 21, 23))
    ELSE NaT

\* to_datetime(s, errors='coerce', format='%Y-%m-%d %H:%M:%S')
ParseSecondsFormat(s) ==
  IF s # None /\ Len(s) = Len(TimestampPattern) /\ MatchesAt(TimestampPattern, s, 0)
    THEN FieldsToTimestamp(s, 0)
    ELSE NaT

\* lines 91-96 without the fillna of the second-precision format
CoerceTimestampMillisOnly(timestamp_str) == ParseMillisFormat(timestamp_str)

\* lines 91-96 with the Unix epoch filled in for what both formats left NaT
CoerceTimestampEpoch(timestamp_str) ==
  IF ParseMillisFormat(timestamp_str) # NaT THEN ParseMillisFormat(timestamp_str)
  ELSE IF ParseSecondsFormat(timestamp_str) # NaT THEN ParseSecondsFormat(timestamp_str)
  ELSE [ year |-> 1970, month |-> 1, day |-> 1, hour |-> 0, minute |-> 0,
         second |-> 0, microsecond |-> 0 ]

\* lines 91-96: the timestamp of one row, millisecond format first and the
\* second-precision format for what it left NaT
CoerceTimestamp(timestamp_str) ==
  IF ParseMillisFormat(timestamp_str) # NaT THEN ParseMillisFormat(timestamp_str)
  ELSE ParseSecondsFormat(timestamp_str)

\* line 89: the frame has a timestamp_str column and not all of it is null
HasTimestamps(entries) ==
  entries # << >> /\ \E i \in 1..Len(entries) : entries[i].timestamp_str # None

\* lines 88-98: the timestamp column, coerced when some entry carries a
\* timestamp and NaT throughout otherwise
TimestampColumn(entries) ==
  IF HasTimestamps(entries)
    THEN [ i \in 1..Len(entries) |-> CoerceTimestamp(entries[i].timestamp_str) ]
    ELSE [ i \in 1..Len(entries) |-> NaT ]

\* lines 86-98: the DataFrame, one row per entry, in order
BuildDataFrame(entries) ==
  [ i \in 1..Len(entries) |->
      [ timestamp_str |-> entries[i].timestamp_str,
        level         |-> entries[i].level,
        message       |-> entries[i].message,
        raw_line      |-> entries[i].raw_line,
        timestamp     |-> TimestampColumn(entries)[i] ] ]

\* ------------------------------------------------------------ the inputs
Timestamp19 ==
  << "2", "0", "2", "4", "-", "0", "6", "-", "2", "5", " ",
     "1", "0", ":", "0", "0", ":", "2", "2" >>

\* pieces a fuzzed text is concatenated from
Pieces ==
  { Timestamp19, << " " >>, << "[" >>, << "]" >>, ERROR, << "e", "r", "r", "o", "r" >>,
    WARN, CRITICAL, << "\n" >> }

RECURSIVE Flatten(_)
Flatten(ss) == IF ss = << >> THEN << >> ELSE Head(ss) \o Flatten(Tail(ss))

FuzzTexts == UNION { { Flatten(f) : f \in [ 1..n -> Pieces ] } : n \in 0..MaxChunks }

\* whole lines a multi-line text is joined from
SampleLines ==
  { ERROR \o << " ", "a" >>,
    << " " >> \o WARNING \o << " ", "b" >>,
    FATAL \o << " ", "c" >>,
    << "2", "0", "2", "4", "-", "1", "3", "-", "2", "5", " ",
       "1", "0", ":", "0", "0", ":", "2", "2", " " >> \o DEBUG \o << " ", "d" >>,
    Timestamp19 \o << ",", "3", "3", "3", " ", "[" >> \o INFO \o << "]", " ", "f", "\r" >>,
    << " ", "\t" >> }

LineTexts == UNION { { JoinLines(f) : f \in [ 1..n -> SampleLines ] } : n \in 0..MaxLines }

Texts == FuzzTexts \cup LineTexts

\* a file with more elevated lines than the cap of process_logs_and_summarize:
\* a DEBUG line, ProcessCap + 1 ERROR lines and a FATAL line
LongText ==
  JoinLines([ i \in 1..(ProcessCap + 3) |->
                IF i = 1 THEN DEBUG \o << " ", "d" >>
                ELSE IF i <= ProcessCap + 2 THEN ERROR \o << " ", "a" >>
                ELSE FATAL \o << " ", "c" >> ])

\* the uploaded file: absent, undecodable bytes, or bytes that decode to a text
UploadedFiles ==
  { NoneRecord } \cup { [ decodable |-> FALSE, text |-> << >> ] }
           \cup { [ decodable |-> TRUE, text |-> t ] : t \in LineTexts \cup { LongText } }

OutputFormats == { "markdown", "html", "pdf" }

\* ------------------------------------------------------------ messages
\* A message is a sequence of fragments; the characters a test looks at
\* stand alone, the rest of the wording is one fragment.
ErrorPrefix == << "E", "R", "R", "O", "R", ":" >>

\* s.startswith(prefix)
StartsWith(s, prefix) == Len(s) >= Len(prefix) /\ SubSeq(s, 1, Len(prefix)) = prefix

MsgNoFile == << "Please upload a log file to get started." >>
MsgNoFindings == << "No significant errors or warnings found in the provided log file." >>
MsgDecode == << "Failed to read log file: UnicodeDecodeError." >>
MsgUnexpected == << "An unexpected error occurred during log processing: ", "<e>" >>
MsgUnsupported == << "Unsupported output format. Only Markdown and HTML are supported for download." >>
MsgNoKey == ErrorPrefix \o << " GOOGLE_API_KEY is not set in your .env file." >>
MsgConfigure == ErrorPrefix \o << " Could not configure Google Generative AI.", "<e>" >>
MsgModel == ErrorPrefix \o << " Could not initialize Generative Model: ", "<e>" >>
MsgStructure == << "A", "I", " response structure not as expected." >>
MsgApiCall == << "A", "n", " error occurred while calling the Google Generative AI API: ", "<e>" >>

\* texts the generative model may answer with
ResponseTexts ==
  { << >>,
    << "#", "#", "#", " Timeline Snapshot" >>,
    ErrorPrefix \o << " disk failure at 10:00" >> }

\* what the environment of generate_log_summary does: is the key set, does
\* configure / model selection / the request raise, and the response's shape
SummarizerEnvs ==
  { [ api_key |-> FALSE, configure |-> "ok", model |-> "ok", generate |-> "raise", text |-> << >> ],
    [ api_key |-> TRUE, configure |-> "raise", model |-> "ok", generate |-> "raise", text |-> << >> ],
    [ api_key |-> TRUE, configure |-> "ok", model |-> "raise", generate |-> "raise", text |-> << >> ],
    [ api_key |-> TRUE, configure |-> "ok", model |-> "ok", generate |-> "raise", text |-> << >> ],
    [ api_key |-> TRUE, configure |-> "ok", model |-> "ok", generate |-> "neither", text |-> << >> ] }
  \cup { [ api_key |-> TRUE, configure |-> "ok", model |-> "ok", generate |-> g, text |-> t ] :
           g \in { "parts", "candidates" }, t \in ResponseTexts }

\* ai_logic.py lines 49-113: the string generate_log_summary returns
SummaryOf(env) ==
  IF ~ env.api_key THEN MsgNoKey
  ELSE IF env.configure = "raise" THEN MsgConfigure
  ELSE IF env.model = "raise" THEN MsgModel
  ELSE IF env.generate = "raise" THEN MsgApiCall
  ELSE IF env.generate = "parts" THEN env.text
  ELSE IF env.generate = "candidates" /\ env.text # << >> THEN env.text
  ELSE MsgStructure

\* a client configured before the key is looked at
ConfiguresOfAlways(env) == 1

\* ai_logic.py lines 52-56: genai.configure is called when the key is set
ConfiguresOf(env) == IF env.api_key THEN 1 ELSE 0

\* ai_logic.py lines 60-61: _get_suitable_model is called when configure
\* returned
SelectionsOf(env) == IF env.api_key /\ env.configure = "ok" THEN 1 ELSE 0

\* the requests of a generate_log_summary that sent a raising request again
RequestsOfWithRetry(env) ==
  IF env.api_key /\ env.configure = "ok" /\ env.model = "ok"
    THEN IF env.generate = "raise" THEN 2 ELSE 1
    ELSE 0

\* the generation requests a call of generate_log_summary issues
RequestsOf(env) ==
  IF env.api_key /\ env.configure = "ok" /\ env.model = "ok" THEN 1 ELSE 0

\* "if not summary_text or summary_text.startswith('ERROR:')"
SummaryFailed(text) == text = << >> \/ StartsWith(text, ErrorPrefix)

\* base64.b64encode(content).decode()
B64Encode(content) == << "base64" >> \o content

\* markdown.markdown(...) wrapped in the HTML page
HtmlPage(content) == << "<!DOCTYPE html>" >> \o content \o << "</html>" >>

\* a link whose media type is not that of the requested format
DataLinkPlain(mime_type, content) ==
  << "data:", "text/plain", ";base64," >> \o B64Encode(content)

\* f'data:{mime_type};base64,{encoded_content}'
DataLink(mime_type, content) == << "data:", mime_type, ";base64," >> \o B64Encode(content)

\* the tuple process_logs_and_summarize returns
Result(summary, link, success, error, df) ==
  [ summary |-> summary, link |-> link, success |-> success, error |-> error, df |-> df ]

\* ------------------------------------------------------------ the state
VARIABLES
  pc,                       \* where the call stands
  caller,                   \* who called parse_log_data: "direct" or "process"
  log_content,              \* parse_log_data's text argument
  max_lines_for_llm,        \* parse_log_data's cap argument
  log_lines,                \* log_content.splitlines()
  idx,                      \* position of the for loop in log_lines
  parsed_entries,           \* entries appended so far
  raw_error_warning_lines,  \* elevated raw lines collected so far
  uploaded_file,            \* process_logs_and_summarize's file argument
  output_format,            \* process_logs_and_summarize's format argument
  df_logs,                  \* the DataFrame (NoneFrame before it is built)
  summary_text,             \* what generate_log_summary returned
  result,                   \* what the call returned
  summarizer_calls,         \* calls of generate_log_summary
  generate_requests,        \* calls of model.generate_content
  log_snippets,             \* the text generate_log_summary was called with
  environment,              \* what the key, the client and the service did in that call
  configure_calls,          \* calls of genai.configure
  model_selections,         \* calls of _get_suitable_model
  calls                     \* the locals of two concurrent calls of parse_log_data

singleVars ==
  << pc, caller, log_content, max_lines_for_llm, log_lines, idx, parsed_entries,
     raw_error_warning_lines, uploaded_file, output_format, df_logs, summary_text,
     result, summarizer_calls, generate_requests, log_snippets, environment,
     configure_calls, model_selections >>

vars == << singleVars, calls >>

\* the two invocations that run side by side
Invocations == { 1, 2 }

\* the locals of an invocation that has not been made
IdleCall ==
  [ pc |-> "idle", log_content |-> << >>, max_lines_for_llm |-> 0, log_lines |-> << >>,
    idx |-> 1, parsed_entries |-> << >>, raw_error_warning_lines |-> << >>,
    result |-> NoneRecord ]

parseVars ==
  << log_content, max_lines_for_llm, log_lines, idx, parsed_entries,
     raw_error_warning_lines >>

processArgs == << uploaded_file, output_format >>

summarizerVars ==
  << summary_text, summarizer_calls, generate_requests, log_snippets, environment,
     configure_calls, model_selections >>

Init ==
  /\ pc = "idle"
  /\ caller = "none"
  /\ log_content = << >>
  /\ max_lines_for_llm = 0
  /\ log_lines = << >>
  /\ idx = 1
  /\ parsed_entries = << >>
  /\ raw_error_warning_lines = << >>
  /\ uploaded_file = NoneRecord
  /\ output_format = "markdown"
  /\ df_logs = NoneFrame
  /\ summary_text = None
  /\ result = NoneRecord
  /\ summarizer_calls = 0
  /\ generate_requests = 0
  /\ log_snippets = None
  /\ environment = NoneRecord
  /\ configure_calls = 0
  /\ model_selections = 0
  /\ calls = [ k \in Invocations |-> IdleCall ]

\* lines 26-28: entry of parse_log_data
EnterParse(text, cap) ==
  /\ log_content' = text
  /\ max_lines_for_llm' = cap
  /\ log_lines' = SplitLines(text)
  /\ idx' = 1
  /\ parsed_entries' = << >>
  /\ raw_error_warning_lines' = << >>

\* a direct call parse_log_data(text, cap)
CallParseLogData ==
  /\ pc = "idle"
  /\ \E text \in Texts, cap \in 0..MaxCap : EnterParse(text, cap)
  /\ caller' = "direct"
  /\ pc' = "parse_loop"
  /\ UNCHANGED << processArgs, df_logs, result, summarizerVars >>
  /\ UNCHANGED calls

\* lines 125-133: process_logs_and_summarize up to its call of parse_log_data
CallProcessLogs ==
  /\ pc = "idle"
  /\ \E file \in UploadedFiles, fmt \in OutputFormats :
       /\ uploaded_file' = file
       /\ output_format' = fmt
       /\ IF file = NoneRecord
            THEN /\ result' = Result(<< >>, None, FALSE, MsgNoFile, NoneFrame)
                 /\ pc' = "returned"
                 /\ UNCHANGED parseVars
          ELSE IF ~ file.decodable
            THEN /\ result' = Result(<< >>, None, FALSE, MsgDecode, NoneFrame)
                 /\ pc' = "returned"
                 /\ UNCHANGED parseVars
          ELSE /\ EnterParse(file.text, ProcessCap)
               /\ pc' = "parse_loop"
               /\ UNCHANGED result
  /\ caller' = "process"
  /\ UNCHANGED << df_logs, summarizerVars >>
  /\ UNCHANGED calls

\* lines 82-84 collecting on a level test alone
CollectElevatedUncapped(lines, level, line, cap) ==
  IF level \in ElevatedLevels THEN Append(lines, line) ELSE lines

\* lines 82-84: collect the raw line of an elevated entry while under the cap
CollectElevated(lines, level, line, cap) ==
  IF level \in ElevatedLevels /\ Len(lines) < cap THEN Append(lines, line) ELSE lines

\* lines 72-84 with the entry appended only while the cap is not reached
LoopStepUnderCap(entries, lines, entry, cap) ==
  [ parsed_entries |->
      IF entry.level \in ElevatedLevels /\ Len(lines) >= cap
        THEN entries ELSE Append(entries, entry),
    raw_error_warning_lines |-> CollectElevated(lines, entry.level, entry.raw_line, cap) ]

\* lines 72-84: append the entry, then collect its raw line
LoopStep(entries, lines, entry, cap) ==
  [ parsed_entries |-> Append(entries, entry),
    raw_error_warning_lines |-> CollectElevated(lines, entry.level, entry.raw_line, cap) ]

\* a loop that skips no line
IsBlankNever(line) == FALSE
\* "if not line: continue"
IsBlank(line) == line = << >>

\* lines 38-84: one iteration of the for loop
ParseLine ==
  /\ pc = "parse_loop"
  /\ idx <= Len(log_lines)
  /\ LET line == Strip(log_lines[idx])
         entry == ParseEntry(line)
     IN  IF IsBlank(line)
           THEN /\ idx' = idx + 1
                /\ UNCHANGED << pc, parsed_entries, raw_error_warning_lines, result >>
         ELSE IF EntryRaised(entry)
           THEN /\ IF caller = "process"
                     THEN /\ result' = Result(<< >>, None, FALSE, MsgUnexpected, df_logs)
                          /\ pc' = "returned"
                     ELSE /\ pc' = "raised"
                          /\ UNCHANGED result
                /\ UNCHANGED << idx, parsed_entries, raw_error_warning_lines >>
         ELSE /\ LET step == LoopStep(parsed_entries, raw_error_warning_lines, entry,
                                      max_lines_for_llm)
                 IN  /\ parsed_entries' = step.parsed_entries
                     /\ raw_error_warning_lines' = step.raw_error_warning_lines
              /\ idx' = idx + 1
              /\ UNCHANGED << pc, result >>
  /\ UNCHANGED << caller, log_content, max_lines_for_llm, log_lines, processArgs,
                  df_logs, summarizerVars >>
  /\ UNCHANGED calls

\* lines 86-103: the loop is over, build the DataFrame and return
ParseReturn ==
  /\ pc = "parse_loop"
  /\ idx > Len(log_lines)
  /\ df_logs' = BuildDataFrame(parsed_entries)
  /\ IF caller = "direct"
       THEN /\ result' = [ df_logs |-> BuildDataFrame(parsed_entries),
                           error_warning_raw_lines |-> raw_error_warning_lines ]
            /\ pc' = "returned"
       ELSE /\ pc' = "parsed"
            /\ UNCHANGED result
  /\ UNCHANGED << caller, parseVars, processArgs, summarizerVars >>
  /\ UNCHANGED calls

\* the early return left out
NoFindingsNever(lines) == FALSE
\* "if not logs_for_llm and not parsed_data['error_warning_raw_lines']"
NoFindings(lines) == JoinLines(lines) = << >> /\ lines = << >>

\* lines 134-139: return early when nothing elevated was found
CheckFindings ==
  /\ pc = "parsed"
  /\ IF NoFindings(raw_error_warning_lines)
       THEN /\ result' = Result(MsgNoFindings, None, TRUE, None, df_logs)
            /\ pc' = "returned"
       ELSE /\ pc' = "summarize"
            /\ UNCHANGED result
  /\ UNCHANGED << caller, parseVars, processArgs, df_logs, summarizerVars >>
  /\ UNCHANGED calls

\* the text of every event sent, whatever its level or the cap
LogsForLlmAllEvents(parsed_data) ==
  JoinLines([ i \in 1..Len(parsed_data.df_logs) |-> parsed_data.df_logs[i].raw_line ])

\* line 135: "\n".join(parsed_data["error_warning_raw_lines"])
LogsForLlm(parsed_data) == JoinLines(parsed_data.error_warning_raw_lines)

\* line 141 and ai_logic.py lines 36-113: the call of generate_log_summary
GenerateLogSummary ==
  /\ pc = "summarize"
  /\ log_snippets' = LogsForLlm([ df_logs |-> df_logs,
                                  error_warning_raw_lines |-> raw_error_warning_lines ])
  /\ \E env \in SummarizerEnvs :
       /\ summary_text' = SummaryOf(env)
       /\ generate_requests' = generate_requests + RequestsOf(env)
       /\ configure_calls' = configure_calls + ConfiguresOf(env)
       /\ model_selections' = model_selections + SelectionsOf(env)
       /\ environment' = env
  /\ summarizer_calls' = summarizer_calls + 1
  /\ pc' = "summarized"
  /\ UNCHANGED << caller, parseVars, processArgs, df_logs, result >>
  /\ UNCHANGED calls

\* lines 143-188: the result built from the summary
BuildReport ==
  /\ pc = "summarized"
  /\ result' =
       IF SummaryFailed(summary_text)
         THEN Result(<< >>, None, FALSE, summary_text, df_logs)
       ELSE IF output_format = "markdown"
         THEN Result(summary_text, DataLink("text/markdown", summary_text), TRUE, None, df_logs)
       ELSE IF output_format = "html"
         THEN Result(summary_text, DataLink("text/html", HtmlPage(summary_text)), TRUE, None, df_logs)
       ELSE Result(summary_text, None, FALSE, MsgUnsupported, df_logs)
  /\ pc' = "returned"
  /\ UNCHANGED << caller, parseVars, processArgs, df_logs, summarizerVars >>
  /\ UNCHANGED calls

Next ==
  \/ CallParseLogData
  \/ CallProcessLogs
  \/ ParseLine
  \/ ParseReturn
  \/ CheckFindings
  \/ GenerateLogSummary
  \/ BuildReport

Spec == Init /\ [][Next]_vars

\* ------------------------------------------- two calls of parse_log_data
\* lines of the texts the two invocations are given
PairLines ==
  { ERROR \o << " ", "a" >>,
    Timestamp19 \o << " ", "[" >> \o ERROR \o << "]" >> }

PairTexts == UNION { { JoinLines(f) : f \in [ 1..n -> PairLines ] } : n \in 0..MaxPairLines }

\* caps the two invocations are given: a small one and the cap of 200
PairCaps == { 1, ProcessCap }

\* the other of the two invocations
Other(k) == 3 - k

\* a collection that outlives the call (a module-level or default-argument
\* list): the invocation starts from what another one has gathered
NewListShared(other) == other

\* lines 27-28: "parsed_entries = []", "raw_error_warning_lines = []", a new
\* list in each invocation
NewList(other) == << >>

\* lines 12-28: invocation k is called with a text and a cap
PairCall ==
  /\ \E k \in Invocations, text \in PairTexts, cap \in PairCaps :
       /\ calls[k].pc \in { "idle", "returned" }
       /\ calls' = [ calls EXCEPT ![k] =
            [ pc |-> "parse_loop",
              log_content |-> text,
              max_lines_for_llm |-> cap,
              log_lines |-> SplitLines(text),
              idx |-> 1,
              parsed_entries |-> NewList(calls[Other(k)].parsed_entries),
              raw_error_warning_lines |-> NewList(calls[Other(k)].raw_error_warning_lines),
              result |-> NoneRecord ] ]
  /\ UNCHANGED singleVars

\* lines 38-84: one iteration of the for loop of invocation k
PairParseLine ==
  /\ \E k \in Invocations :
       /\ calls[k].pc = "parse_loop"
       /\ calls[k].idx <= Len(calls[k].log_lines)
       /\ LET line  == Strip(calls[k].log_lines[calls[k].idx])
              entry == ParseEntry(line)
              step  == LoopStep(calls[k].parsed_entries, calls[k].raw_error_warning_lines,
                                entry, calls[k].max_lines_for_llm)
          IN  calls' = [ calls EXCEPT ![k] =
                IF IsBlank(line)
                  THEN [ calls[k] EXCEPT !.idx = @ + 1 ]
                ELSE IF EntryRaised(entry)
                  THEN [ calls[k] EXCEPT !.pc = "raised" ]
                ELSE [ calls[k] EXCEPT !.idx = @ + 1,
                                       !.parsed_entries = step.parsed_entries,
                                       !.raw_error_warning_lines = step.raw_error_warning_lines ] ]
  /\ UNCHANGED singleVars

\* lines 86-103: invocation k builds its DataFrame and returns
PairReturn ==
  /\ \E k \in Invocations :
       /\ calls[k].pc = "parse_loop"
       /\ calls[k].idx > Len(calls[k].log_lines)
       /\ calls' = [ calls EXCEPT ![k] =
            [ calls[k] EXCEPT
                !.pc = "returned",
                !.result = [ df_logs |-> BuildDataFrame(calls[k].parsed_entries),
                             error_warning_raw_lines |-> calls[k].raw_error_warning_lines ] ] ]
  /\ UNCHANGED singleVars

PairNext ==
  \/ PairCall
  \/ PairParseLine
  \/ PairReturn

PairSpec == Init /\ [][PairNext]_vars

\* ================================================================ claims
\* parse_log_data has returned (the DataFrame is built)
ParseCompleted == df_logs # NoneFrame

\* parse_log_data has just returned to its caller
ParseReturned == (caller = "direct" /\ pc = "returned") \/ pc = "parsed"

\* the raw_line column of the events
RawLinesOf(events) == [ i \in 1..Len(events) |-> events[i].raw_line ]

\* The non-blank lines of a text, read off the text by position: the line
\* breaks cut the text into segments; a segment with a non-space character
\* is a non-blank line, and trimmed it runs from its first to its last
\* non-space character.
MaxOf(S) == CHOOSE x \in S : \A y \in S : y <= x

\* the elements of a set of numbers in increasing order
Ascending(S) == IF S = {} THEN << >> ELSE AscendingIn(S, MinOf(S), MaxOf(S))

TrimmedNonBlankLines(text) ==
  LET cuts == Ascending({ 0, Len(text) + 1 }
                        \cup { i \in 1..Len(text) : text[i] \in LineBreaks })
      inked == [ k \in 1..(Len(cuts) - 1) |->
                 { i \in (cuts[k] + 1)..(cuts[k + 1] - 1) : ~ IsSpace(text[i]) } ]
      nonblank == SelectSeq(inked, LAMBDA S : S # {})
  IN  [ k \in 1..Len(nonblank) |-> SubSeq(text, MinOf(nonblank[k]), MaxOf(nonblank[k])) ]

SevenLevels == { CRITICAL, FATAL, ERROR, WARN, WARNING, INFO, DEBUG }

\* urgency of a level, CRITICAL highest
Urgency(level) ==
  CASE level = CRITICAL -> 7 [] level = FATAL -> 6 [] level = ERROR -> 5
    [] level = WARN -> 4 [] level = WARNING -> 3 [] level = INFO -> 2
    [] level = DEBUG -> 1

\* level of a line after the structured match or the INFO default, before
\* the keyword override
StructuredLevel(line) == ClassifyStructured(line).level

\* the raw lines of the events whose final level is elevated, in order
ElevatedRawLinesOf(events) ==
  RawLinesOf(SelectSeq(events,
    LAMBDA e : e.level \in { ERROR, WARN, WARNING, CRITICAL, FATAL }))

MinNat(a, b) == IF a <= b THEN a ELSE b

\* C1: when parse_log_data has returned, the raw_line values of its events
\* are exactly the trimmed non-blank lines of the input text, in input
\* order: one event per non-blank line, none for a blank line.
C1_OneEventPerNonBlankLine ==
  ParseReturned => RawLinesOf(df_logs) = TrimmedNonBlankLines(log_content)

\* a text with a blank line among at least two non-blank ones was parsed
C1_Witness ==
  /\ ParseReturned
  /\ Len(df_logs) >= 2
  /\ Len(log_lines) > Len(df_logs)
  /\ Len(log_content) > Len(Strip(log_content))

\* C2: the level of every event is one of the seven severities, whatever
\* the line contains.
C2_LevelInSevenValues ==
  \A i \in 1..Len(parsed_entries) : parsed_entries[i].level \in SevenLevels

\* an event of a line with no level token, one promoted by a lower-case
\* keyword and one that starts with a bracket the pattern does not take
C2_Witness ==
  /\ Len(parsed_entries) >= 2
  /\ \E i \in 1..Len(parsed_entries) :
       /\ LogPatternMatch(parsed_entries[i].raw_line).level = None
       /\ parsed_entries[i].level = ERROR
  /\ \E i \in 1..Len(parsed_entries) :
       /\ parsed_entries[i].raw_line[1] = "]"
       /\ parsed_entries[i].level = INFO

\* C3: an event whose structured level token is CRITICAL or FATAL has that
\* level after the keyword override.
C3_CriticalFatalKept ==
  \A i \in 1..Len(parsed_entries) :
    StructuredLevel(parsed_entries[i].raw_line) \in { CRITICAL, FATAL }
      => parsed_entries[i].level = StructuredLevel(parsed_entries[i].raw_line)

\* C4: applying the keyword override again to an event's line and the level
\* the event was given leaves the level unchanged.
C4_OverrideIdempotent ==
  \A i \in 1..Len(parsed_entries) :
    KeywordOverride(parsed_entries[i].raw_line, parsed_entries[i].level)
      = parsed_entries[i].level

\* C5: the level of an event is never of lower urgency than the level its
\* line had after the structured match or the INFO default.
C5_OverrideOnlyPromotes ==
  \A i \in 1..Len(parsed_entries) :
    Urgency(parsed_entries[i].level)
      >= Urgency(StructuredLevel(parsed_entries[i].raw_line))

\* C6: when parse_log_data has returned, elevated_raw_lines is the first
\* min(N, k) of the raw lines of the k events whose final level is
\* elevated, in order, N being the cap.
C6_ElevatedIsCappedPrefix ==
  ParseReturned =>
    LET elevated == ElevatedRawLinesOf(df_logs)
    IN  raw_error_warning_lines =
          SubSeq(elevated, 1, MinNat(max_lines_for_llm, Len(elevated)))

\* a parse with a positive cap that met more elevated lines than the cap,
\* and a non-elevated line as well
C6_Witness ==
  /\ ParseReturned
  /\ max_lines_for_llm >= 1
  /\ Len(ElevatedRawLinesOf(df_logs)) > max_lines_for_llm
  /\ Len(raw_error_warning_lines) = max_lines_for_llm
  /\ Len(df_logs) > Len(ElevatedRawLinesOf(df_logs))

\* C7: the events parse_log_data has appended are those of the non-blank
\* lines read so far, each with its classified level, whatever the cap and
\* however many elevated lines were met; at its return they are those of
\* the whole text.
C7_EventsIndependentOfCap ==
  LET lines == TrimmedNonBlankLines(log_content)
  IN  /\ pc = "parse_loop" =>
           parsed_entries = [ k \in 1..Len(parsed_entries) |-> ParseEntry(lines[k]) ]
      /\ ParseReturned =>
           parsed_entries = [ k \in 1..Len(lines) |-> ParseEntry(lines[k]) ]

\* a parse returned after it met an elevated line beyond the cap
C7_Witness ==
  /\ ParseReturned
  /\ Len(ElevatedRawLinesOf(df_logs)) > max_lines_for_llm
  /\ df_logs[Len(df_logs)].level \in ElevatedLevels
  /\ \A i \in 1..Len(raw_error_warning_lines) :
       raw_error_warning_lines[i] # df_logs[Len(df_logs)].raw_line

\* no exception left parse_log_data, to its caller or to the handler of
\* process_logs_and_summarize
NoParseException ==
  /\ pc # "raised"
  /\ (pc = "returned" /\ caller = "process") => result.error # MsgUnexpected

\* every non-blank line has its event, shaped as an event
AllLinesAbsorbed ==
  ParseReturned =>
    /\ Len(df_logs) = Len(TrimmedNonBlankLines(log_content))
    /\ \A i \in 1..Len(df_logs) :
         /\ df_logs[i].level \in SevenLevels
         /\ df_logs[i].message # AttributeError
         /\ df_logs[i].timestamp_str # AttributeError

\* the loop's position stays within the lines, so that the lines left to
\* read, Len(log_lines) + 1 - idx, is a natural number
LoopInRange == pc = "parse_loop" => idx \in 1..(Len(log_lines) + 1)

\* a step taken in the loop reads one more line or returns
LoopAdvances ==
  pc = "parse_loop" =>
    \/ pc' = "parse_loop" /\ idx' = idx + 1
    \/ ParseReturned'

\* C8: parse_log_data never raises, whatever the text; every non-blank line
\* is absorbed into an event; and the call ends with a result: each step of
\* the loop reads one more of finitely many lines or returns, none raises.
C8_ParseNeverRaises ==
  /\ [](NoParseException /\ AllLinesAbsorbed /\ LoopInRange)
  /\ [][LoopAdvances]_vars

\* a parse returned with a worst-case event: no timestamp, level INFO, the
\* whole line as message, for a line the pattern takes nothing of
C8_Witness ==
  /\ ParseReturned
  /\ \E i \in 1..Len(df_logs) :
       /\ df_logs[i].raw_line[1] \in { "[", "]", "," }
       /\ df_logs[i].timestamp_str = None
       /\ df_logs[i].level = INFO
       /\ df_logs[i].message = df_logs[i].raw_line

\* messages generate_log_summary returns when the key is missing, the
\* configuration fails, no model is usable or the generation call fails
SummarizerFailures == { MsgNoKey, MsgConfigure, MsgModel, MsgApiCall }

\* C9: when the summarizer failed, process_logs_and_summarize returns
\* success false, an empty summary and no download link.
C9_SummarizerFailureIsUnavailable ==
  (pc = "returned" /\ summary_text \in SummarizerFailures) =>
    /\ result.success = FALSE
    /\ result.summary = << >>
    /\ result.link = None

\* C10: when the parse found no elevated line, process_logs_and_summarize
\* does not call the summarizer and returns the no-findings result as a
\* success, with the whole event collection; the summarizer is called only
\* when an elevated line exists.
C10_NoFindingsSkipsSummarizer ==
  /\ (ParseCompleted /\ caller = "process" /\ raw_error_warning_lines = << >>) =>
       /\ summarizer_calls = 0
       /\ pc \in { "parsed", "returned" }
       /\ pc = "returned" =>
            /\ result = Result(MsgNoFindings, None, TRUE, None, df_logs)
            /\ Len(result.df) = Len(TrimmedNonBlankLines(log_content))
  /\ (summarizer_calls > 0 \/ pc = "summarize") => raw_error_warning_lines # << >>

\* process_logs_and_summarize returned no findings for a text with events
C10_Witness ==
  /\ pc = "returned"
  /\ caller = "process"
  /\ ParseCompleted
  /\ Len(df_logs) >= 2
  /\ raw_error_warning_lines = << >>
  /\ result.summary = MsgNoFindings

\* the line mentions the keyword (given in upper case) in any letter case
Mentions(line, keyword) == Contains(Upper(line), keyword)

\* the error rule applies to a line whose level so far is level
ErrorRuleFires(line, level) ==
  Mentions(line, ERROR) /\ level \notin { ERROR, CRITICAL, FATAL }

\* the warning rule applies to a line whose level so far is level
WarnRuleFires(line, level) ==
  /\ ~ ErrorRuleFires(line, level)
  /\ Mentions(line, WARN) \/ Mentions(line, WARNING)
  /\ level \notin { WARN, WARNING }

\* C11: an event whose line mentions "ERROR" in any letter case, and whose
\* level after the structured match or the default is none of ERROR, CRITICAL
\* and FATAL, has the final level ERROR; so a line at INFO, DEBUG, WARN or
\* WARNING that mentions "error" is promoted, a warning keyword in the same
\* line notwithstanding.
C11_ErrorKeywordPromotes ==
  ParseReturned =>
    \A i \in 1..Len(df_logs) :
      ErrorRuleFires(df_logs[i].raw_line, StructuredLevel(df_logs[i].raw_line))
        => df_logs[i].level = ERROR

\* an event at level token WARN whose line says "error" came out as ERROR
C11_Witness ==
  /\ ParseReturned
  /\ \E i \in 1..Len(df_logs) :
       /\ StructuredLevel(df_logs[i].raw_line) = WARN
       /\ Contains(df_logs[i].raw_line, << "e", "r", "r", "o", "r" >>)
       /\ df_logs[i].level = ERROR

\* C12: when the error rule does not fire, an event whose line mentions
\* "WARN" or "WARNING" in any letter case and whose level so far is neither
\* WARN nor WARNING has the final level WARN; when neither rule fires, as for
\* a line with none of the keywords, the level of the structured match or
\* the default is kept.
C12_WarnKeywordElseKept ==
  ParseReturned =>
    \A i \in 1..Len(df_logs) :
      LET line  == df_logs[i].raw_line
          level == StructuredLevel(line)
      IN  /\ WarnRuleFires(line, level) => df_logs[i].level = WARN
          /\ (~ ErrorRuleFires(line, level) /\ ~ WarnRuleFires(line, level))
               => df_logs[i].level = level

\* a line without a level token that mentions "WARN" came out as WARN
C12_Witness ==
  /\ ParseReturned
  /\ \E i \in 1..Len(df_logs) :
       /\ StructuredLevel(df_logs[i].raw_line) = INFO
       /\ WarnRuleFires(df_logs[i].raw_line, INFO)
       /\ df_logs[i].level = WARN

\* the level names a structured line is claimed to carry, WARNING apart
SixTokens == { CRITICAL, FATAL, ERROR, WARN, INFO, DEBUG }

\* t is written as YYYY-MM-DD HH:MM:SS, with ,mmm after it when 23 long
IsTimestampText(t) ==
  /\ Len(t) \in { 19, 23 }
  /\ \A k \in 1..Len(t) :
       IF k \in { 5, 8 } THEN t[k] = "-"
       ELSE IF k = 11 THEN t[k] = " "
       ELSE IF k \in { 14, 17 } THEN t[k] = ":"
       ELSE IF k = 20 THEN t[k] = ","
       ELSE t[k] \in Digits

\* the level token as written, bare or wrapped in brackets
TokenText(token, wrapped) ==
  IF wrapped THEN << "[" >> \o token \o << "]" >> ELSE token

\* the lengths of the timestamp a line may be read to start with (0: none)
TimestampLengths(line) ==
  { 0 } \cup { n \in { 19, 23 } : n <= Len(line) /\ IsTimestampText(SubSeq(line, 1, n)) }

\* the offsets that only whitespace separates from offset n
SpacesAfter(line, n) ==
  { sp \in n..Len(line) : \A k \in (n + 1)..sp : IsSpace(line[k]) }

\* at offset sp of line stands the level token and then message text, set
\* off from a bare token by whitespace
HasShape(line, sp, token, wrapped) ==
  /\ sp + Len(TokenText(token, wrapped)) < Len(line)
  /\ SubSeq(line, sp + 1, sp + Len(TokenText(token, wrapped))) = TokenText(token, wrapped)
  /\ wrapped \/ IsSpace(line[sp + Len(TokenText(token, wrapped)) + 1])

\* the text after the level token, trimmed
TextAfterToken(line, sp, token, wrapped) ==
  Strip(SubSeq(line, sp + Len(TokenText(token, wrapped)) + 1, Len(line)))

\* the text mentions none of the override keywords
KeywordFree(text) == ~ Mentions(text, ERROR) /\ ~ Mentions(text, WARN)

\* an event of a line made of a timestamp (or none), whitespace, a level
\* token of the given names and message text free of keywords carries the
\* timestamp substring, the token and the trimmed remaining text
ShapeExtracted(row, tokens) ==
  \A n \in TimestampLengths(row.raw_line) :
    \A sp \in SpacesAfter(row.raw_line, n) :
      \A token \in tokens :
        \A wrapped \in BOOLEAN :
          ( /\ HasShape(row.raw_line, sp, token, wrapped)
            /\ KeywordFree(TextAfterToken(row.raw_line, sp, token, wrapped)) )
          => /\ row.timestamp_str =
                  IF n = 0 THEN None ELSE SubSeq(row.raw_line, 1, n)
             /\ row.level = token
             /\ row.message = TextAfterToken(row.raw_line, sp, token, wrapped)

\* some event has a line of that shape with that timestamp length and token
ShapeSeen(n, token, wrapped) ==
  \E i \in 1..Len(df_logs) :
    /\ n \in TimestampLengths(df_logs[i].raw_line)
    /\ \E sp \in SpacesAfter(df_logs[i].raw_line, n) :
         /\ HasShape(df_logs[i].raw_line, sp, token, wrapped)
         /\ KeywordFree(TextAfterToken(df_logs[i].raw_line, sp, token, wrapped))
         /\ df_logs[i].level = token
         /\ df_logs[i].message = TextAfterToken(df_logs[i].raw_line, sp, token, wrapped)

\* C13: for a line made of a timestamp YYYY-MM-DD HH:MM:SS with an optional
\* ,mmm suffix, then one of the level tokens CRITICAL, FATAL, ERROR, WARN,
\* INFO, DEBUG (bare or bracket-wrapped), then message text without an
\* override keyword, the event has timestamp_raw equal to the timestamp
\* substring, level equal to the token and message equal to the remaining
\* text trimmed; without the timestamp, timestamp_raw is none and level and
\* message are extracted the same way.
C13_StructuredLineExtracted ==
  ParseReturned =>
    \A i \in 1..Len(df_logs) : ShapeExtracted(df_logs[i], SixTokens)

\* one frame holds a line with a millisecond timestamp and a wrapped token
\* and a line with a bare token and no timestamp, both extracted
C13_Witness ==
  /\ ParseReturned
  /\ ShapeSeen(23, INFO, TRUE)
  /\ ShapeSeen(0, FATAL, FALSE)

\* C14: a line whose level token is WARNING, such as "WARNING Disk low",
\* is classified with level WARNING and the message after the token
\* ("Disk low").
C14_WarningTokenExtracted ==
  ParseReturned =>
    \A i \in 1..Len(df_logs) : ShapeExtracted(df_logs[i], { WARNING })

\* line begins with a level name, behind an opening bracket or not
StartsWithLevelToken(line) ==
  \E token \in SevenLevels :
    StartsWith(line, token) \/ StartsWith(line, << "[" >> \o token)

\* line is free text: no timestamp and no level token at its start, and no
\* override keyword anywhere
IsFreeText(line) ==
  /\ TimestampLengths(line) = { 0 }
  /\ ~ StartsWithLevelToken(line)
  /\ KeywordFree(line)

\* C15: an event of a line that starts with neither a timestamp nor a level
\* token and mentions no override keyword has timestamp_raw none, level INFO
\* and the whole trimmed line as its message.
C15_FreeTextIsInfo ==
  ParseReturned =>
    \A i \in 1..Len(df_logs) :
      IsFreeText(df_logs[i].raw_line) =>
        /\ df_logs[i].timestamp_str = None
        /\ df_logs[i].level = INFO
        /\ df_logs[i].message = df_logs[i].raw_line

\* a free-text line of several characters became an INFO event
C15_Witness ==
  /\ ParseReturned
  /\ \E i \in 1..Len(df_logs) :
       /\ IsFreeText(df_logs[i].raw_line)
       /\ Len(df_logs[i].raw_line) >= 3
       /\ df_logs[i].level = INFO
       /\ df_logs[i].message = df_logs[i].raw_line

\* C16: an event whose timestamp_raw is none has timestamp none; so it is
\* when no line carries a timestamp at all, and an input without events
\* gives a frame without rows.
C16_NoRawTimestampNoTimestamp ==
  ParseReturned =>
    /\ \A i \in 1..Len(df_logs) :
         df_logs[i].timestamp_str = None => df_logs[i].timestamp = NaT
    /\ (\A i \in 1..Len(parsed_entries) : parsed_entries[i].timestamp_str = None)
         => /\ Len(df_logs) = Len(parsed_entries)
            /\ \A i \in 1..Len(df_logs) : df_logs[i].timestamp = NaT

\* a frame where an event without a raw timestamp stands next to one whose
\* timestamp was parsed
C16_Witness ==
  /\ ParseReturned
  /\ \E i, j \in 1..Len(df_logs) :
       /\ df_logs[i].timestamp_str = None
       /\ df_logs[i].timestamp = NaT
       /\ df_logs[j].timestamp # NaT

\* last day of a month of the proleptic Gregorian calendar
LastDayOf(year, month) ==
  CASE month \in { 1, 3, 5, 7, 8, 10, 12 } -> 31
    [] month \in { 4, 6, 9, 11 } -> 30
    [] month = 2 /\ year % 400 = 0 -> 29
    [] month = 2 /\ year % 400 # 0 /\ year % 100 = 0 -> 28
    [] month = 2 /\ year % 100 # 0 /\ year % 4 = 0 -> 29
    [] OTHER -> 28

\* the instant a raw timestamp of 19 or 23 characters names: read with the
\* millisecond format when it has the ,mmm suffix, with the second format
\* when it has not, and none when its fields name no instant
MomentOf(raw) ==
  LET year   == Number(raw, 1, 4)
      month  == Number(raw, 6, 7)
      day    == Number(raw, 9, 10)
      hour   == Number(raw, 12, 13)
      minute == Number(raw, 15, 16)
      second == Number(raw, 18, 19)
  IN  IF /\ IsTimestampText(raw)
         /\ year >= 1 /\ month >= 1 /\ month <= 12
         /\ day >= 1 /\ day <= LastDayOf(year, month)
         /\ hour < 24 /\ minute < 60 /\ second < 60
        THEN [ year |-> year, month |-> month, day |-> day, hour |-> hour,
               minute |-> minute, second |-> second,
               microsecond |-> IF Len(raw) = 23 THEN 1000 * Number(raw, 21, 23) ELSE 0 ]
        ELSE NaT

\* C17: the timestamp of an event with a raw timestamp is what the
\* millisecond format reads from it, else what the second-precision format
\* reads, else none; a raw timestamp neither format reads (month 13) raises
\* nothing, leaves every line its event and every other event its timestamp.
C17_TimestampCoercion ==
  ParseReturned =>
    /\ \A i \in 1..Len(df_logs) :
         df_logs[i].timestamp_str # None =>
           df_logs[i].timestamp = MomentOf(df_logs[i].timestamp_str)
    /\ (\E i \in 1..Len(df_logs) :
          df_logs[i].timestamp_str # None /\ df_logs[i].timestamp = NaT)
         => /\ pc # "raised"
            /\ RawLinesOf(df_logs) = TrimmedNonBlankLines(log_content)

\* a frame where an event with an unreadable raw timestamp stands next to
\* one read with the millisecond format
C17_Witness ==
  /\ ParseReturned
  /\ \E i, j \in 1..Len(df_logs) :
       /\ df_logs[i].timestamp_str # None
       /\ Number(df_logs[i].timestamp_str, 6, 7) = 13
       /\ df_logs[i].timestamp = NaT
       /\ df_logs[j].timestamp # NaT
       /\ df_logs[j].timestamp.microsecond = 333000

\* process_logs_and_summarize has returned its tuple
ProcessReturned == pc = "returned" /\ caller = "process"

\* C18: process_logs_and_summarize returns an error message that is a
\* non-empty string exactly when it failed and None exactly when it
\* succeeded, on every return path, that of a summarizer returning empty
\* text included.
C18_ErrorMessageIffFailure ==
  ProcessReturned =>
    /\ result.success => result.error = None
    /\ ~ result.success => result.error # None /\ result.error # << >>

\* C19: process_logs_and_summarize returns summary text only with success;
\* the first element of every result with success false is the empty string.
C19_SummaryOnlyOnSuccess ==
  ProcessReturned => (~ result.success => result.summary = << >>)

\* C20: the summarizer is never retried: a call of
\* process_logs_and_summarize calls generate_log_summary at most once, and
\* a call of generate_log_summary issues at most one generation request,
\* whatever comes of it.
C20_SummarizerNotRetried ==
  /\ summarizer_calls <= 1
  /\ generate_requests <= summarizer_calls
  /\ pc \in { "idle", "parse_loop", "parsed", "summarize" } => summarizer_calls = 0

\* the one generation request raised and the call returned without another
C20_Witness ==
  /\ ProcessReturned
  /\ summary_text = MsgApiCall
  /\ summarizer_calls = 1
  /\ generate_requests = 1

\* the text holds nothing but whitespace and line breaks (or nothing)
BlankOnly(text) == \A i \in 1..Len(text) : IsSpace(text[i])

\* a text went into parse_log_data: directly, or decoded from the upload
TextParsed ==
  \/ caller = "direct"
  \/ caller = "process" /\ uploaded_file # NoneRecord /\ uploaded_file.decodable

\* C21: empty content, or content of blank lines only, yields no event and
\* no elevated line and raises nothing, and process_logs_and_summarize then
\* returns the no-significant-findings success, not an error, without
\* calling the summarizer.
C21_BlankInputIsNoFindings ==
  (TextParsed /\ BlankOnly(log_content)) =>
    /\ pc # "raised"
    /\ parsed_entries = << >>
    /\ raw_error_warning_lines = << >>
    /\ ParseReturned => df_logs = << >>
    /\ summarizer_calls = 0
    /\ ProcessReturned => result = Result(MsgNoFindings, None, TRUE, None, << >>)

\* an upload of blank lines came back as the no-findings success
C21_Witness ==
  /\ ProcessReturned
  /\ TextParsed
  /\ BlankOnly(log_content)
  /\ Len(SplitLines(log_content)) >= 2
  /\ result.success
  /\ result.summary = MsgNoFindings
  /\ result.df = << >>

\* the two invocations were given the same arguments
SameArguments(j, k) ==
  /\ calls[j].log_content = calls[k].log_content
  /\ calls[j].max_lines_for_llm = calls[k].max_lines_for_llm

\* two returned invocations with the same arguments hold equal results
EqualResults ==
  \A j, k \in Invocations :
    (calls[j].pc = "returned" /\ calls[k].pc = "returned" /\ SameArguments(j, k))
      => calls[j].result = calls[k].result

\* a step of a running invocation leaves its own input as it was and does
\* not touch the locals or the result of the other invocation
InputKeptAndOtherUntouched ==
  \A k \in Invocations :
    /\ calls[k].pc = "parse_loop" =>
         /\ calls'[k].log_content = calls[k].log_content
         /\ calls'[k].max_lines_for_llm = calls[k].max_lines_for_llm
    /\ calls'[k] # calls[k] => calls'[Other(k)] = calls[Other(k)]

\* C22: parse_log_data is a pure function of (log_content, cap): two
\* invocations with the same arguments return equal events and equal
\* elevated lines whatever other invocations ran before or interleave with
\* them, each invocation works on collections of its own, and none modifies
\* its input.
C22_ParseIsPure ==
  [] EqualResults /\ [][InputKeptAndOtherUntouched]_vars

\* two invocations on the same two-line text and cap have both returned,
\* with an elevated line collected
C22_Witness ==
  /\ calls[1].pc = "returned"
  /\ calls[2].pc = "returned"
  /\ SameArguments(1, 2)
  /\ Len(calls[1].result.df_logs) = 2
  /\ Len(calls[1].result.error_warning_raw_lines) = 1
  /\ calls[1].result = calls[2].result

\* the line is a timestamp, whitespace and a level token with nothing after
\* it, so that the message group of the pattern captures nothing
EndsWithToken(line, sp, token, wrapped) ==
  /\ sp + Len(TokenText(token, wrapped)) = Len(line)
  /\ SubSeq(line, sp + 1, Len(line)) = TokenText(token, wrapped)

\* C23: when a timestamp and a level token matched and the captured message
\* is empty, the message is the text of the line after the end of the level
\* token; a bracket-wrapped token such as "[ERROR]" ends after its closing
\* bracket, so the message holds no part of the token (here: it is empty).
C23_RederivedMessageAfterToken ==
  \A k \in Invocations :
    calls[k].pc = "returned" =>
      \A i \in 1..Len(calls[k].result.df_logs) :
        LET row == calls[k].result.df_logs[i]
        IN  \A n \in TimestampLengths(row.raw_line) \ { 0 } :
              \A sp \in SpacesAfter(row.raw_line, n) :
                \A token \in SixTokens :
                  \A wrapped \in BOOLEAN :
                    EndsWithToken(row.raw_line, sp, token, wrapped)
                      => row.message = << >>

\* C24: the text process_logs_and_summarize passes to the summarizer is the
\* elevated raw lines joined by single newlines, in their original order
\* and collected with the cap of 200: no line of an INFO or DEBUG event is
\* in it, and no elevated line after the 200th.
C24_SummarizerGetsElevatedLines ==
  summarizer_calls > 0 =>
    LET elevated == ElevatedRawLinesOf(df_logs)
    IN  /\ max_lines_for_llm = ProcessCap
        /\ log_snippets = JoinLines(SubSeq(elevated, 1, MinNat(ProcessCap, Len(elevated))))

\* the summarizer was called for a file with a DEBUG line and more elevated
\* lines than the cap
C24_Witness ==
  /\ summarizer_calls > 0
  /\ Len(ElevatedRawLinesOf(df_logs)) > ProcessCap
  /\ Len(raw_error_warning_lines) = ProcessCap
  /\ \E i \in 1..Len(df_logs) : df_logs[i].level = DEBUG
  /\ log_snippets # None
  /\ Len(log_snippets) = 8 * ProcessCap - 1

\* the media type of a download in the requested format
MediaTypeOf(format) ==
  IF format = "markdown" THEN "text/markdown" ELSE "text/html"

\* C25: in every successful result of process_logs_and_summarize the
\* download link is None exactly when no elevated line was found; a success
\* that carries a summary of the summarizer carries a base64 data link in
\* the requested format, markdown or html.
C25_LinkIffSummarized ==
  (ProcessReturned /\ result.success) =>
    /\ result.link = None <=> ElevatedRawLinesOf(result.df) = << >>
    /\ result.link = None <=> summarizer_calls = 0
    /\ summarizer_calls > 0 =>
         /\ result.summary = summary_text
         /\ output_format \in { "markdown", "html" }
         /\ Len(result.link) > 3
         /\ SubSeq(result.link, 1, 3) = << "data:", MediaTypeOf(output_format), ";base64," >>

\* a summarized file came back as a success with an html data link
C25_Witness ==
  /\ ProcessReturned
  /\ result.success
  /\ summarizer_calls = 1
  /\ output_format = "html"
  /\ result.link # None
  /\ result.link[2] = "text/html"

\* C26: generate_log_summary returns a string and raises nothing whichever
\* step fails: without an API key it returns an "ERROR:" message and has
\* not configured the client, selected a model or issued a request; when
\* configuration or model selection fails it returns an "ERROR:" message and
\* has issued no generation request; when the generation request fails it
\* returns a message string.
C26_SummarizerAlwaysReturnsString ==
  summarizer_calls > 0 =>
    /\ pc \in { "summarized", "returned" }
    /\ summary_text # None
    /\ \A i \in 1..Len(summary_text) : summary_text[i] \in STRING
    /\ ~ environment.api_key =>
         /\ StartsWith(summary_text, ErrorPrefix)
         /\ configure_calls = 0
         /\ model_selections = 0
         /\ generate_requests = 0
    /\ (environment.api_key
        /\ (environment.configure = "raise" \/ environment.model = "raise")) =>
         /\ StartsWith(summary_text, ErrorPrefix)
         /\ generate_requests = 0
    /\ (environment.api_key /\ environment.configure = "ok" /\ environment.model = "ok"
        /\ environment.generate = "raise") =>
         /\ generate_requests = 1
         /\ summary_text = MsgApiCall

\* a call without an API key has returned its message
C26_Witness ==
  /\ summarizer_calls = 1
  /\ pc = "summarized"
  /\ ~ environment.api_key
  /\ summary_text = MsgNoKey
  /\ configure_calls = 0

====
